---- MODULE Spec2Model ----
(***************************************************************************)
(* Model of pixel_art_helper: palette application (test.py), ring counting *)
(* and cost estimation (calculate_cost.py).                                *)
(*                                                                         *)
(* Python dicts are insertion-ordered; a dict is modelled as a sequence of *)
(* <<key, value>> pairs with pairwise distinct keys.  Strings that the     *)
(* code inspects character by character (hex colours, ring names) are      *)
(* sequences of one-character strings.  An RGB pixel is a triple of        *)
(* integers 0..255.  Money is kept in cents (7.58 -> 758).                 *)
(***************************************************************************)
EXTENDS Integers, Sequences, FiniteSets, TLC

VARIABLES
    palette,           \* palette file content: dict name -> hex colour
    image,             \* pixels of the image file given to apply_palette
    pal_rgb,           \* apply_palette: palette after hex -> (r, g, b)
    new_img,           \* apply_palette: output image
    idx,               \* apply_palette: number of pixels processed
    new_color,         \* apply_palette: last result of color_selection_func
    runs,              \* number of apply_palette runs started
    counted,           \* pixels of the file given to rings_by_color
    color_count,       \* result of rings_by_color
    rings_by_palette,  \* result of convert_to_palette
    cost,              \* calculate_cost: total cost, in cents
    breakdown,         \* calculate_cost: dict name -> [rings, bags]
    pc,                \* position in the scripts
    err,               \* exception that ended the run, "" when none
    color_1,           \* cielab_00: first argument
    color_2,           \* cielab_00: second argument
    dhp,               \* cielab_00: hue difference, None while unset
    hhp,               \* cielab_00: mean hue, None while unset
    de,                \* cielab_00: result of the running or last call
    ee,                \* Symmetry Test: result of the call made first
    lab_pc,            \* position in the Symmetry Test and in cielab_00
    avg_fn,            \* which average-colour function is running
    avg_image,         \* get_average_color: pixels of the image file
    ignore_function,   \* get_average_color: the ignore_function argument
    avg_i,             \* get_average_color: number of pixels visited
    total_r,           \* get_average_color: accumulators
    total_g,
    total_b,
    avg_count,         \* get_average_color: count, the pixels not ignored
    average,           \* get_average_color: the value returned
    avg_pc             \* position in get_average_color

labVars == <<color_1, color_2, dhp, hhp, de, ee, lab_pc>>

avgVars == <<avg_fn, avg_image, ignore_function, avg_i, total_r, total_g,
             total_b, avg_count, average, avg_pc>>

vars == <<palette, image, pal_rgb, new_img, idx, new_color, runs, counted,
          color_count, rings_by_palette, cost, breakdown, pc, err, labVars,
          avgVars>>

----------------------------------------------------------------------------
(* Bounds of the model *)

MaxPalette == 2
MaxPixels == 2
MaxRuns == 2
MaxRings == 650
MaxEntries == 2
MaxLightness == 1
MaxChroma == 2
HueStep == 15

(* Settings of calculate_cost.py *)

rings_per_bag == 300
cost_per_bag_matte == 758
cost_per_bag_bright == 912

----------------------------------------------------------------------------
(* Values *)

\* Python's None, as returned by closest_color_euclidean for an empty palette
None == <<>>

\* float('inf'): compared only through IsCloser
Infinity == -1

Black == <<0, 0, 0>>
Red == <<255, 0, 0>>
Green == <<0, 255, 0>>
Blue == <<0, 0, 255>>
Dark == <<10, 10, 26>>

Colors == {Black, Red, Green, Blue, Dark}

NameRed == <<"r", "e", "d">>
NameMatteRed == <<"m", "a", "t", "t", "e", "_", "r", "e", "d">>
NameBlueMatte == <<"b", "l", "u", "e", "_", "m", "a", "t", "t", "e">>
NameMate == <<"m", "a", "t", "e">>
NameBright == <<"b", "r", "i", "g", "h", "t">>

Names == {NameRed, NameMatteRed, NameBlueMatte, NameMate, NameBright}

\* names used in palette files
PaletteNames == {NameRed, NameMatteRed, NameMate}

----------------------------------------------------------------------------
(* Ordered dicts *)

Keys(d) == {d[i][1] : i \in DOMAIN d}

Get(d, k) == d[CHOOSE i \in DOMAIN d : d[i][1] = k][2]

\* d[k] = v: an existing key keeps its position
Put(d, k, v) ==
    IF k \in Keys(d)
    THEN [i \in DOMAIN d |-> IF d[i][1] = k THEN <<k, v>> ELSE d[i]]
    ELSE Append(d, <<k, v>>)

Values(d) == [i \in DOMAIN d |-> d[i][2]]

SeqsUpTo(S, lo, hi) == UNION {[1..n -> S] : n \in lo..hi}

DistinctKeys(d) == \A i, j \in DOMAIN d : d[i][1] = d[j][1] => i = j

----------------------------------------------------------------------------
(* Hex strings *)

HexChars == <<"0", "1", "2", "3", "4", "5", "6", "7",
              "8", "9", "A", "B", "C", "D", "E", "F">>

LowerHexChars == <<"0", "1", "2", "3", "4", "5", "6", "7",
                   "8", "9", "a", "b", "c", "d", "e", "f">>

\* f"{v:02X}"
Format02X(v) == <<HexChars[(v \div 16) + 1], HexChars[(v % 16) + 1]>>

\* f"{pixel[0]:02X}{pixel[1]:02X}{pixel[2]:02X}"
FormatColor(pixel) ==
    Format02X(pixel[1]) \o Format02X(pixel[2]) \o Format02X(pixel[3])

HexDigitValue(c) ==
    IF \E i \in 1..16 : HexChars[i] = c
    THEN (CHOOSE i \in 1..16 : HexChars[i] = c) - 1
    ELSE (CHOOSE i \in 1..16 : LowerHexChars[i] = c) - 1

\* int(s, 16) for a two-character string
ParseHex2(s) == 16 * HexDigitValue(s[1]) + HexDigitValue(s[2])

\* (int(hex_color[0:2], 16), int(hex_color[2:4], 16), int(hex_color[4:6], 16))
ParseColor(hex_color) ==
    <<ParseHex2(SubSeq(hex_color, 1, 2)),
      ParseHex2(SubSeq(hex_color, 3, 4)),
      ParseHex2(SubSeq(hex_color, 5, 6))>>

----------------------------------------------------------------------------
(* test.py: closest_color_euclidean *)

\* the blue channel left out of the sum
DistanceNoBlue(c1, c2) ==
    (c1[1] - c2[1]) * (c1[1] - c2[1]) + (c1[2] - c2[2]) * (c1[2] - c2[2])

Distance(c1, c2) ==
    (c1[1] - c2[1]) * (c1[1] - c2[1])
    + (c1[2] - c2[2]) * (c1[2] - c2[2])
    + (c1[3] - c2[3]) * (c1[3] - c2[3])

\* the comparison reversed: the farthest entry wins
IsFarther(distance, min_distance) ==
    min_distance = Infinity \/ distance > min_distance

\* the comparison written with <=: a later tie replaces the best so far
IsCloserOrEqual(distance, min_distance) ==
    min_distance = Infinity \/ distance <= min_distance

\* distance < min_distance, min_distance starting at float('inf')
IsCloser(distance, min_distance) ==
    min_distance = Infinity \/ distance < min_distance

\* the loop over the palette list from position i on
RECURSIVE ClosestLoop(_, _, _, _, _)
ClosestLoop(input_color, pal, i, closest_color, min_distance) ==
    IF i > Len(pal)
    THEN closest_color
    ELSE IF IsCloser(Distance(input_color, pal[i]), min_distance)
         THEN ClosestLoop(input_color, pal, i + 1, pal[i],
                          Distance(input_color, pal[i]))
         ELSE ClosestLoop(input_color, pal, i + 1, closest_color, min_distance)

closest_color_euclidean(input_color, pal) ==
    ClosestLoop(input_color, pal, 1, None, Infinity)

----------------------------------------------------------------------------
(* calculate_cost.py *)

\* a repeated colour is counted as new
CountPixelNoIncrement(out, color) == Put(out, color, 1)

\* the body of the pixel loop of rings_by_color
CountPixel(out, color) ==
    IF color \in Keys(out)
    THEN Put(out, color, Get(out, color) + 1)
    ELSE Put(out, color, 1)

RECURSIVE RingsLoop(_, _, _)
RingsLoop(pixels, i, out) ==
    IF i > Len(pixels)
    THEN out
    ELSE RingsLoop(pixels, i + 1, CountPixel(out, FormatColor(pixels[i])))

rings_by_color(pixels) == RingsLoop(pixels, 1, <<>>)

\* {k: v for v, k in palette.items()}: a later name replaces an earlier one
RECURSIVE InvertLoop(_, _, _)
InvertLoop(pal, i, out) ==
    IF i > Len(pal)
    THEN out
    ELSE InvertLoop(pal, i + 1, Put(out, pal[i][2], pal[i][1]))

\* the comprehension written without swapping key and value
PaletteInvNotSwapped(pal) == pal

PaletteInv(pal) == InvertLoop(pal, 1, <<>>)

\* the loop of convert_to_palette; palette_inv[color] raises KeyError
RECURSIVE ConvertLoop(_, _, _, _)
ConvertLoop(cc, palette_inv, i, out) ==
    IF i > Len(cc)
    THEN [err |-> "", out |-> out]
    ELSE IF cc[i][1] \notin Keys(palette_inv)
         THEN [err |-> "KeyError", out |-> out]
         ELSE ConvertLoop(cc, palette_inv, i + 1,
                          Put(out, Get(palette_inv, cc[i][1]), cc[i][2]))

convert_to_palette(cc, pal) == ConvertLoop(cc, PaletteInv(pal), 1, <<>>)

\* the quotient rounded down instead of up
BagsFloor(count) == count \div rings_per_bag

\* math.ceil(count / rings_per_bag) for count >= 0
Bags(count) ==
    IF count % rings_per_bag = 0
    THEN count \div rings_per_bag
    ELSE (count \div rings_per_bag) + 1

\* sub in s
Contains(s, sub) ==
    \E i \in 1..(Len(s) - Len(sub) + 1) : SubSeq(s, i, i + Len(sub) - 1) = sub

Matte == <<"m", "a", "t", "t", "e">>

Bright == <<"b", "r", "i", "g", "h", "t">>

\* the two prices exchanged
PricePerBagSwapped(name) ==
    IF Contains(name, Matte) THEN cost_per_bag_bright ELSE cost_per_bag_matte

\* a name of neither category costs nothing
PricePerBagKnownOnly(name) ==
    IF Contains(name, Matte) THEN cost_per_bag_matte
    ELSE IF Contains(name, Bright) THEN cost_per_bag_bright ELSE 0

\* the if/else on "matte" in name
PricePerBag(name) ==
    IF Contains(name, Matte) THEN cost_per_bag_matte ELSE cost_per_bag_bright

RECURSIVE CostLoop(_, _, _, _)
CostLoop(hist, i, c, bd) ==
    IF i > Len(hist)
    THEN [cost |-> c, breakdown |-> bd]
    ELSE LET name == hist[i][1]
             count == hist[i][2]
             bags == Bags(count)
         IN  CostLoop(hist, i + 1, c + PricePerBag(name) * bags,
                      Put(bd, name, [rings |-> count, bags |-> bags]))

calculate_cost(hist) == CostLoop(hist, 1, 0, <<>>)

----------------------------------------------------------------------------
(* test.py: cielab_00 *)

(* TLA+ has no floating-point numbers.  The numbers of cielab_00 are kept   *)
(* as fixed-point integers with one binary fractional digit (Fix(50) is    *)
(* 50.0), which is exact for sums, differences and halves of whole         *)
(* numbers.  A colour is given by what lines 158-184 make of it: its       *)
(* lightness l, its adjusted chroma cp and its hue hp in degrees, in       *)
(* [0, 360).  The result de is given by the terms line 219 computes it     *)
(* from.                                                                   *)

Fix(n) == 2 * n

Abs(x) == IF x < 0 THEN -x ELSE x

\* a number that has been assigned; None is the unassigned one
Some(x) == <<x>>

\* the + 360 branch left out
HueDifferenceNoWrapUp(hp1, hp2) ==
    IF Abs(hp2 - hp1) <= Fix(180) THEN Some(hp2 - hp1)
    ELSE IF (hp2 - hp1) > Fix(180) THEN Some(hp2 - hp1 - Fix(360))
    ELSE Some(hp2 - hp1)

\* lines 186-194: dhp, None on the fall-through branch
HueDifference(hp1, hp2) ==
    IF Abs(hp2 - hp1) <= Fix(180) THEN Some(hp2 - hp1)
    ELSE IF (hp2 - hp1) > Fix(180) THEN Some(hp2 - hp1 - Fix(360))
    ELSE IF (hp2 - hp1) < -Fix(180) THEN Some(hp2 - hp1 + Fix(360))
    ELSE None

\* lines 198-206: hhp, None on the fall-through branch
MeanHue(hp1, hp2) ==
    IF Abs(hp1 - hp2) <= Fix(180) THEN Some((hp1 + hp2) \div 2)
    ELSE IF hp1 + hp2 < Fix(360) THEN Some((hp1 + hp2 + Fix(360)) \div 2)
    ELSE IF hp1 + hp2 > Fix(360) THEN Some((hp1 + hp2 - Fix(360)) \div 2)
    ELSE None

\* the terms of line 219: dlp, dcp and dhp (through dHp) are the
\* differences; lh, chp, cpp = cp1 * cp2 and hhp weight them
Terms(c1, c2, dh, hh) ==
    [error |-> "",
     dlp |-> c2.l - c1.l,
     dcp |-> c2.cp - c1.cp,
     dhp |-> dh[1],
     lh |-> (c1.l + c2.l) \div 2,
     chp |-> (c1.cp + c2.cp) \div 2,
     cpp |-> c1.cp * c2.cp,
     hhp |-> hh[1]]

\* arithmetic on None at line 196 or 209
TypeError ==
    [error |-> "TypeError", dlp |-> 0, dcp |-> 0, dhp |-> 0, lh |-> 0,
     chp |-> 0, cpp |-> 0, hhp |-> 0]

NoResult ==
    [error |-> "unset", dlp |-> 0, dcp |-> 0, dhp |-> 0, lh |-> 0,
     chp |-> 0, cpp |-> 0, hhp |-> 0]

LabIdle ==
    /\ color_1 = [l |-> 0, cp |-> 0, hp |-> 0]
    /\ color_2 = [l |-> 0, cp |-> 0, hp |-> 0]
    /\ dhp = None
    /\ hhp = None
    /\ de = NoResult
    /\ ee = NoResult
    /\ lab_pc = <<0, "idle">>

----------------------------------------------------------------------------
(* test.py: get_average_color; ring_lord_palette_creation.py:              *)
(* get_average_color_ring_lord                                             *)

White == <<255, 255, 255>>
Grey == <<200, 200, 200>>
Teal == <<5, 128, 251>>

\* an ignore_function argument: None, ignore_white of test.py (above 250),
\* ignore_white of ring_lord_palette_creation.py (limit 180), ignore_greyscale
IgnoreFunctions ==
    {"None", "ignore_white", "ignore_white_ring_lord", "ignore_greyscale"}

\* ignore_function is not None and ignore_function(pixel)
Ignored(f, pixel) ==
    CASE f = "None" -> FALSE
      [] f = "ignore_white" ->
            pixel[1] > 250 /\ pixel[2] > 250 /\ pixel[3] > 250
      [] f = "ignore_white_ring_lord" ->
            pixel[1] > 180 /\ pixel[2] > 180 /\ pixel[3] > 180
      [] f = "ignore_greyscale" ->
            pixel[1] = pixel[2] /\ pixel[2] = pixel[3]

\* the hexadecimal digits of n, lower case, without leading zeros
RECURSIVE LowerHexDigits(_)
LowerHexDigits(n) ==
    IF n < 16
    THEN <<LowerHexChars[n + 1]>>
    ELSE Append(LowerHexDigits(n \div 16), LowerHexChars[(n % 16) + 1])

\* hex(n)
Hex(n) == <<"0", "x">> \o LowerHexDigits(n)

\* s[-2:]
LastTwo(s) == SubSeq(s, Len(s) - 1, Len(s))

UpperChar(c) ==
    IF c = "x" THEN "X"
    ELSE IF \E i \in 1..16 : LowerHexChars[i] = c
         THEN HexChars[CHOOSE i \in 1..16 : LowerHexChars[i] = c]
         ELSE c

\* s.upper()
Upper(s) == [i \in DOMAIN s |-> UpperChar(s[i])]

\* test.py lines 302-306
FormatAverage(r, g, b) ==
    Upper(LastTwo(Hex(r)) \o LastTwo(Hex(g)) \o LastTwo(Hex(b)))

\* ring_lord_palette_creation.py line 65
FormatAverageRingLord(r, g, b) == Format02X(r) \o Format02X(g) \o Format02X(b)

AvgIdle ==
    /\ avg_fn = "none"
    /\ avg_image = <<>>
    /\ ignore_function = "None"
    /\ avg_i = 0
    /\ total_r = 0
    /\ total_g = 0
    /\ total_b = 0
    /\ avg_count = 0
    /\ average = None
    /\ avg_pc = "idle"

----------------------------------------------------------------------------
(* Inputs *)

\* palette files: name -> 6-hex-digit colour, names unique
PaletteFiles ==
    {p \in SeqsUpTo(PaletteNames \X {FormatColor(c) : c \in Colors}, 0, MaxPalette) :
        DistinctKeys(p)}

ImageFiles == SeqsUpTo(Colors, 1, MaxPixels)

BlankImage(n) == [i \in 1..n |-> Black]

----------------------------------------------------------------------------
(* The scripts *)

Init ==
    /\ palette \in PaletteFiles
    /\ image \in ImageFiles
    /\ pal_rgb = <<>>
    /\ new_img = <<>>
    /\ idx = 0
    /\ new_color = Black
    /\ runs = 0
    /\ counted = <<>>
    /\ color_count = <<>>
    /\ rings_by_palette = <<>>
    /\ cost = 0
    /\ breakdown = <<>>
    /\ pc = "start"
    /\ err = ""
    /\ LabIdle
    /\ AvgIdle

\* apply_palette up to the pixel loop: load the palette, convert it, make
\* the output image
ApplyPaletteLoad ==
    /\ pc = "start"
    /\ UNCHANGED labVars
    /\ UNCHANGED avgVars
    /\ runs < MaxRuns
    /\ runs' = runs + 1
    /\ pal_rgb' = [i \in DOMAIN palette |->
                      <<palette[i][1], ParseColor(palette[i][2])>>]
    /\ new_img' = BlankImage(Len(image))
    /\ idx' = 0
    /\ pc' = "pixels"
    /\ UNCHANGED <<palette, image, new_color, counted, color_count,
                   rings_by_palette, cost, breakdown, err>>

\* one iteration of the pixel loop; putpixel rejects None with a TypeError
ApplyPalettePixel ==
    /\ pc = "pixels"
    /\ UNCHANGED labVars
    /\ UNCHANGED avgVars
    /\ idx < Len(image)
    /\ LET c == closest_color_euclidean(image[idx + 1], Values(pal_rgb))
       IN  /\ new_color' = c
           /\ IF c = None
              THEN /\ pc' = "error"
                   /\ err' = "TypeError"
                   /\ UNCHANGED <<new_img, idx>>
              ELSE /\ new_img' = [new_img EXCEPT ![idx + 1] = c]
                   /\ idx' = idx + 1
                   /\ UNCHANGED <<pc, err>>
    /\ UNCHANGED <<palette, image, pal_rgb, runs, counted, color_count,
                   rings_by_palette, cost, breakdown>>

\* the end of apply_palette: the output image is saved
ApplyPaletteSave ==
    /\ pc = "pixels"
    /\ UNCHANGED labVars
    /\ UNCHANGED avgVars
    /\ idx = Len(image)
    /\ pc' = "saved"
    /\ UNCHANGED <<palette, image, pal_rgb, new_img, idx, new_color, runs,
                   counted, color_count, rings_by_palette, cost, breakdown,
                   err>>

\* apply_palette is run again on the file it has written
ApplyPaletteAgain ==
    /\ pc = "saved"
    /\ UNCHANGED labVars
    /\ UNCHANGED avgVars
    /\ runs < MaxRuns
    /\ runs' = runs + 1
    /\ image' = new_img
    /\ pal_rgb' = [i \in DOMAIN palette |->
                      <<palette[i][1], ParseColor(palette[i][2])>>]
    /\ new_img' = BlankImage(Len(new_img))
    /\ idx' = 0
    /\ pc' = "pixels"
    /\ UNCHANGED <<palette, new_color, counted, color_count,
                   rings_by_palette, cost, breakdown, err>>

\* calculate_cost.py on the image file as given
RingsByColorInput ==
    /\ pc = "start"
    /\ UNCHANGED labVars
    /\ UNCHANGED avgVars
    /\ counted' = image
    /\ color_count' = rings_by_color(image)
    /\ pc' = "counted"
    /\ UNCHANGED <<palette, image, pal_rgb, new_img, idx, new_color, runs,
                   rings_by_palette, cost, breakdown, err>>

\* calculate_cost.py on the file apply_palette has written
RingsByColorOutput ==
    /\ pc = "saved"
    /\ UNCHANGED labVars
    /\ UNCHANGED avgVars
    /\ counted' = new_img
    /\ color_count' = rings_by_color(new_img)
    /\ pc' = "counted"
    /\ UNCHANGED <<palette, image, pal_rgb, new_img, idx, new_color, runs,
                   rings_by_palette, cost, breakdown, err>>

ConvertToPalette ==
    /\ pc = "counted"
    /\ UNCHANGED labVars
    /\ UNCHANGED avgVars
    /\ LET r == convert_to_palette(color_count, palette)
       IN  IF r.err = ""
           THEN /\ rings_by_palette' = r.out
                /\ pc' = "converted"
                /\ UNCHANGED err
           ELSE /\ pc' = "error"
                /\ err' = r.err
                /\ UNCHANGED rings_by_palette
    /\ UNCHANGED <<palette, image, pal_rgb, new_img, idx, new_color, runs,
                   counted, color_count, cost, breakdown>>

CalculateCost ==
    /\ pc = "converted"
    /\ UNCHANGED labVars
    /\ UNCHANGED avgVars
    /\ LET r == calculate_cost(rings_by_palette)
       IN  /\ cost' = r.cost
           /\ breakdown' = r.breakdown
    /\ pc' = "done"
    /\ UNCHANGED <<palette, image, pal_rgb, new_img, idx, new_color, runs,
                   counted, color_count, rings_by_palette, err>>

Next ==
    \/ ApplyPaletteLoad
    \/ ApplyPalettePixel
    \/ ApplyPaletteSave
    \/ ApplyPaletteAgain
    \/ RingsByColorInput
    \/ RingsByColorOutput
    \/ ConvertToPalette
    \/ CalculateCost

Spec == Init /\ [][Next]_vars

----------------------------------------------------------------------------
(* Properties of palette application *)

\* colours of the converted palette, as the list given to the selection
PaletteColors == {pal_rgb[i][2] : i \in DOMAIN pal_rgb}

\* sum of squared per-channel differences, stated on its own
SumOfSquares(c1, c2) ==
    (c1[1] - c2[1]) ^ 2 + (c1[2] - c2[2]) ^ 2 + (c1[3] - c2[3]) ^ 2

\* pixels apply_palette has replaced so far in this run
Processed == IF pc \in {"pixels", "saved"} THEN 1..idx ELSE {}

\* C1: with a non-empty palette, every replacement colour is an element of
\* the palette, and no palette element has a strictly smaller sum of squared
\* per-channel differences to the input pixel.
C1_ClosestIsNearestPaletteColor ==
    \A i \in Processed :
        Len(pal_rgb) >= 1 =>
            /\ new_img[i] \in PaletteColors
            /\ \A c \in PaletteColors :
                   SumOfSquares(image[i], c) >= SumOfSquares(image[i], new_img[i])

\* a pixel that is not a palette colour has been replaced, choosing among
\* palette colours at different distances
C1_Witness ==
    /\ pc = "saved"
    /\ \E i \in 1..idx :
           /\ new_img[i] # image[i]
           /\ \E c \in PaletteColors :
                  SumOfSquares(image[i], c) > SumOfSquares(image[i], new_img[i])

\* position of the first palette entry at minimal distance from color
FirstNearest(color) ==
    CHOOSE k \in DOMAIN pal_rgb :
        /\ \A j \in DOMAIN pal_rgb :
               SumOfSquares(color, pal_rgb[j][2]) >= SumOfSquares(color, pal_rgb[k][2])
        /\ \A j \in 1..(k - 1) :
               SumOfSquares(color, pal_rgb[j][2]) > SumOfSquares(color, pal_rgb[k][2])

\* C4: among palette entries at the same minimal distance the first in
\* iteration order is returned; a later entry replaces the best so far only
\* when it is strictly closer.
C4_TieKeepsFirst ==
    \A i \in Processed :
        Len(pal_rgb) >= 1 => new_img[i] = pal_rgb[FirstNearest(image[i])][2]

\* a pixel has been replaced while two different palette colours were at
\* the same minimal distance from it
C4_Witness ==
    /\ pc = "saved"
    /\ \E i \in 1..idx : \E j, k \in DOMAIN pal_rgb :
           /\ j < k
           /\ pal_rgb[j][2] # pal_rgb[k][2]
           /\ j = FirstNearest(image[i])
           /\ SumOfSquares(image[i], pal_rgb[j][2]) = SumOfSquares(image[i], pal_rgb[k][2])

\* C7: a pixel whose colour is a palette colour is replaced by that same
\* colour; a second application to the written image changes no pixel; and
\* such a pixel is counted under a palette entry of its own colour.
C7_ExactMatchKept ==
    /\ \A i \in Processed : image[i] \in PaletteColors => new_img[i] = image[i]
    /\ \A i \in Processed : runs >= 2 => new_img[i] = image[i]
    /\ (pc \in {"converted", "done"} /\ runs >= 1) =>
           \A i \in DOMAIN image :
               image[i] \in PaletteColors =>
                   /\ counted[i] = image[i]
                   /\ \E n \in Keys(rings_by_palette) :
                          /\ ParseColor(Get(palette, n)) = image[i]
                          /\ Get(rings_by_palette, n) >= 1

\* the palette has been applied a second time, to the image of the first
\* application, and that image was then counted
C7_Witness ==
    /\ pc = "converted"
    /\ runs = 2
    /\ Len(pal_rgb) >= 2
    /\ \E i, j \in DOMAIN image : image[i] # image[j]

\* C8: with an empty palette, palette application fails with an
\* invalid-palette error before any pixel is processed, and the selection
\* never yields an undefined match (None).
C8_EmptyPaletteRejected ==
    /\ new_color # None
    /\ (runs >= 1 /\ Len(palette) = 0) =>
           (pc = "error" /\ err = "InvalidPalette" /\ idx = 0)

----------------------------------------------------------------------------
(* Properties of ring counting *)

RECURSIVE SumCounts(_, _)
SumCounts(hist, i) ==
    IF i > Len(hist) THEN 0 ELSE hist[i][2] + SumCounts(hist, i + 1)

\* every colour of the counted image is a colour of the palette file
PaletteHasEveryColor ==
    \A i \in DOMAIN counted :
        \E k \in DOMAIN palette : palette[k][2] = FormatColor(counted[i])

\* rings_by_color and convert_to_palette have both run
Converted == pc \in {"converted", "done"}

\* C2: when the palette contains every colour of the image, the conversion
\* succeeds and the counts of the histogram sum to the number of pixels.
C2_CountsSumToPixels ==
    (Len(counted) >= 1 /\ pc \notin {"start", "counted"} /\ PaletteHasEveryColor) =>
        /\ Converted
        /\ SumCounts(rings_by_palette, 1) = Len(counted)

\* an image with a repeated colour and a second colour has been converted
C2_Witness ==
    /\ Converted
    /\ Len(rings_by_palette) >= 1
    /\ \E i, j \in DOMAIN counted : i # j /\ counted[i] = counted[j]

\* C6: every name of the histogram is a key of the palette, stored with the
\* number of pixels that have that palette entry's colour, also when several
\* names share a colour.
C6_NamesFromPaletteWithPixelCounts ==
    /\ (Len(counted) >= 1 /\ pc \notin {"start", "counted"} /\ PaletteHasEveryColor) =>
           Converted
    /\ Converted =>
           \A k \in DOMAIN rings_by_palette :
               LET n == rings_by_palette[k][1]
               IN  /\ n \in Keys(palette)
                   /\ rings_by_palette[k][2] =
                          Cardinality({i \in DOMAIN counted :
                                          FormatColor(counted[i]) = Get(palette, n)})

\* an image has been converted under a palette in which two names share
\* the colour of one of its pixels
C6_Witness ==
    /\ Converted
    /\ \E j, k \in DOMAIN palette :
           /\ j # k
           /\ palette[j][2] = palette[k][2]
           /\ \E i \in DOMAIN counted : FormatColor(counted[i]) = palette[j][2]

----------------------------------------------------------------------------
(* calculate_cost on its own, over histograms with counts up to MaxRings *)

\* counts around the multiples of rings_per_bag, and every multiple of 50
RingCounts ==
    {r \in 0..MaxRings :
        r % 50 = 0 \/ r % rings_per_bag \in {1, rings_per_bag - 1}}

Histograms ==
    {h \in SeqsUpTo(Names \X RingCounts, 0, MaxEntries) : DistinctKeys(h)}

InitCost ==
    /\ palette = <<>>
    /\ image = <<>>
    /\ pal_rgb = <<>>
    /\ new_img = <<>>
    /\ idx = 0
    /\ new_color = Black
    /\ runs = 0
    /\ counted = <<>>
    /\ color_count = <<>>
    /\ rings_by_palette \in Histograms
    /\ cost = 0
    /\ breakdown = <<>>
    /\ pc = "converted"
    /\ err = ""
    /\ LabIdle
    /\ AvgIdle

NextCost == CalculateCost

SpecCost == InitCost /\ [][NextCost]_vars

\* C3: bags is ceil(rings / rings_per_bag): the least integer with
\* bags * rings_per_bag >= rings; 0 for 0 rings, at least 1 for any ring;
\* 650 rings make 3 bags and 300 rings make 1.
C3_BagsIsCeiling ==
    pc = "done" =>
        \A k \in DOMAIN breakdown :
            LET rings == breakdown[k][2].rings
                bags == breakdown[k][2].bags
            IN  /\ bags >= 0
                /\ bags * rings_per_bag >= rings
                /\ \A b \in 0..(bags - 1) : b * rings_per_bag < rings
                /\ (rings = 0 => bags = 0)
                /\ (rings > 0 => bags >= 1)
                /\ (rings = 650 => bags = 3)
                /\ (rings = 300 => bags = 1)

\* the cost of 650 rings of one name and a whole number of bags of another
\* has been calculated
C3_Witness ==
    /\ pc = "done"
    /\ \E j, k \in DOMAIN breakdown :
           /\ breakdown[j][2].rings = 650
           /\ breakdown[j][2].bags = 3
           /\ breakdown[k][2].rings = 300

RECURSIVE SumBagPrices(_, _, _)
SumBagPrices(bd, i, names) ==
    IF i > Len(bd)
    THEN 0
    ELSE (IF bd[i][1] \in names
          THEN bd[i][2].bags *
                   (IF Contains(bd[i][1], Matte)
                    THEN cost_per_bag_matte ELSE cost_per_bag_bright)
          ELSE 0)
         + SumBagPrices(bd, i + 1, names)

\* C5: the total cost is the sum over the histogram's names of bags times
\* the price of the name's category (matte when the name contains "matte",
\* bright otherwise); the breakdown has exactly the histogram's names, each
\* with rings equal to its count.
C5_CostIsSumOfBagPrices ==
    pc = "done" =>
        /\ Len(breakdown) = Len(rings_by_palette)
        /\ \A k \in DOMAIN rings_by_palette :
               /\ breakdown[k][1] = rings_by_palette[k][1]
               /\ breakdown[k][2].rings = rings_by_palette[k][2]
        /\ cost = SumBagPrices(breakdown, 1, Keys(rings_by_palette))

\* a histogram with a matte name and a name that only resembles it, both
\* with rings, has been costed
C5_Witness ==
    /\ pc = "done"
    /\ cost > 0
    /\ \E j, k \in DOMAIN breakdown :
           /\ Contains(breakdown[j][1], Matte)
           /\ breakdown[k][1] = NameMate
           /\ breakdown[j][2].bags >= 1
           /\ breakdown[k][2].bags >= 2

\* a name belongs to a price category when it carries the category's word
KnownCategory(name) == Contains(name, Matte) \/ Contains(name, Bright)

UnknownNames == {n \in Keys(rings_by_palette) : ~KnownCategory(n)}

\* C9 as stated: a histogram name of no known price category makes the
\* estimation fail with an unknown-palette-name error; it is never priced.
C9_UnknownNameRejected ==
    (pc # "converted" /\ UnknownNames # {}) =>
        (pc = "error" /\ err = "UnknownPaletteName")

\* C9 as amended: calculate_cost raises no error; a name of no known
\* category is not skipped and is priced at the bright price, so that with
\* rings it costs at least one bright bag.
C9_UnknownNamePricedBright ==
    pc = "done" =>
        /\ err = ""
        /\ UnknownNames \subseteq Keys(breakdown)
        /\ cost - SumBagPrices(breakdown, 1, Keys(rings_by_palette) \ UnknownNames)
               = cost_per_bag_bright
                     * SumCounts([k \in DOMAIN breakdown |->
                                     <<breakdown[k][1],
                                       IF breakdown[k][1] \in UnknownNames
                                       THEN breakdown[k][2].bags ELSE 0>>], 1)
        /\ \A n \in UnknownNames :
               Get(rings_by_palette, n) > 0 => Get(breakdown, n).bags >= 1

\* a histogram with rings under a name of no known category has been costed
C9_Witness ==
    /\ pc = "done"
    /\ \E n \in UnknownNames : Get(rings_by_palette, n) > rings_per_bag
    /\ \E n \in Keys(rings_by_palette) : KnownCategory(n)

----------------------------------------------------------------------------
(* The Symmetry Test of test.py: cielab_00(color_2, color_1), then         *)
(* cielab_00(color_1, color_2)                                             *)

Hues == {h \in 0..359 : h % HueStep = 0}

\* a colour without chroma has hue atan2(0, 0) = 0
LabColors ==
    {[l |-> Fix(l), cp |-> Fix(c), hp |-> Fix(h)] :
        l \in 0..MaxLightness, c \in 1..MaxChroma, h \in Hues}
    \cup {[l |-> Fix(l), cp |-> 0, hp |-> 0] : l \in 0..MaxLightness}

InitLab ==
    /\ palette = <<>>
    /\ image = <<>>
    /\ pal_rgb = <<>>
    /\ new_img = <<>>
    /\ idx = 0
    /\ new_color = Black
    /\ runs = 0
    /\ counted = <<>>
    /\ color_count = <<>>
    /\ rings_by_palette = <<>>
    /\ cost = 0
    /\ breakdown = <<>>
    /\ pc = "idle"
    /\ err = ""
    /\ color_1 \in LabColors
    /\ color_2 \in LabColors
    /\ dhp = None
    /\ hhp = None
    /\ de = NoResult
    /\ ee = NoResult
    /\ lab_pc = <<0, "idle">>
    /\ AvgIdle

pipeVars == <<palette, image, pal_rgb, new_img, idx, new_color, runs, counted,
              color_count, rings_by_palette, cost, breakdown, pc, err>>

\* first and second argument of the running call
Arg1 == IF lab_pc[1] = 1 THEN color_2 ELSE color_1
Arg2 == IF lab_pc[1] = 1 THEN color_1 ELSE color_2

\* the test calls cielab_00: first with (color_2, color_1) for ee, then
\* with (color_1, color_2) for de
CielabCall ==
    /\ \/ lab_pc = <<0, "idle">>
       \/ lab_pc = <<1, "ret">>
    /\ ee' = IF lab_pc[1] = 1 THEN de ELSE ee
    /\ de' = NoResult
    /\ dhp' = None
    /\ hhp' = None
    /\ lab_pc' = <<lab_pc[1] + 1, "dhp">>
    /\ UNCHANGED <<color_1, color_2>>
    /\ UNCHANGED pipeVars
    /\ UNCHANGED avgVars

\* lines 186-196: the hue difference; sin(dhp / 2) fails on None
CielabHueDifference ==
    /\ lab_pc[2] = "dhp"
    /\ LET d == HueDifference(Arg1.hp, Arg2.hp)
       IN  /\ dhp' = d
           /\ IF d = None
              THEN /\ de' = TypeError
                   /\ lab_pc' = <<lab_pc[1], "raised">>
              ELSE /\ de' = de
                   /\ lab_pc' = <<lab_pc[1], "hhp">>
    /\ UNCHANGED <<color_1, color_2, hhp, ee>>
    /\ UNCHANGED pipeVars
    /\ UNCHANGED avgVars

\* lines 198-209: the mean hue; cos(hhp - 30) fails on None
CielabMeanHue ==
    /\ lab_pc[2] = "hhp"
    /\ LET h == MeanHue(Arg1.hp, Arg2.hp)
       IN  /\ hhp' = h
           /\ IF h = None
              THEN /\ de' = TypeError
                   /\ lab_pc' = <<lab_pc[1], "raised">>
              ELSE /\ de' = de
                   /\ lab_pc' = <<lab_pc[1], "de">>
    /\ UNCHANGED <<color_1, color_2, dhp, ee>>
    /\ UNCHANGED pipeVars
    /\ UNCHANGED avgVars

\* lines 211-221
CielabReturn ==
    /\ lab_pc[2] = "de"
    /\ de' = Terms(Arg1, Arg2, dhp, hhp)
    /\ lab_pc' = <<lab_pc[1], "ret">>
    /\ UNCHANGED <<color_1, color_2, dhp, hhp, ee>>
    /\ UNCHANGED pipeVars
    /\ UNCHANGED avgVars

NextLab ==
    \/ CielabCall
    \/ CielabHueDifference
    \/ CielabMeanHue
    \/ CielabReturn

SpecLab == InitLab /\ [][NextLab]_vars

\* two results are the same distance when the terms that weight agree and
\* the differences agree or are all three negated: line 219 squares dlp,
\* and dcp and dHp enter squared or as their product
SameDistance(x, y) ==
    /\ x.error = "" /\ y.error = ""
    /\ x.lh = y.lh /\ x.chp = y.chp /\ x.cpp = y.cpp /\ x.hhp = y.hhp
    /\ Abs(x.dlp) = Abs(y.dlp)
    /\ \/ x.dcp = y.dcp /\ x.dhp = y.dhp
       \/ x.dcp = -y.dcp /\ x.dhp = -y.dhp

\* every term under the root of line 219 is 0
IsZero(x) == x.error = "" /\ x.dlp = 0 /\ x.dcp = 0 /\ x.dhp = 0

\* C10: cielab_00 is symmetric: for all colours A and B both calls return
\* a number and cielab_00(A, B) equals cielab_00(B, A), and cielab_00(A, A)
\* is 0.
C10_SymmetricAndZeroOnEqual ==
    /\ lab_pc[2] # "raised"
    /\ lab_pc = <<2, "ret">> => SameDistance(ee, de)
    /\ (lab_pc[2] = "ret" /\ color_1 = color_2) => IsZero(de)

\* the hue-difference step of the running call has been executed
HueDifferenceDone == lab_pc[2] \in {"hhp", "de", "ret", "raised"}

\* C11: for hues in [0, 360) the hue-difference step never falls through:
\* dhp is the raw difference when it is at most 180 in size, 360 less when
\* it exceeds 180 and 360 more when it is below -180; dhp lies in
\* [-180, 180] and is congruent to hp2 - hp1 modulo 360.
C11_HueDifferenceWrapped ==
    HueDifferenceDone =>
        LET d == Arg2.hp - Arg1.hp
        IN  /\ dhp # None
            /\ (d >= -Fix(180) /\ d <= Fix(180)) => dhp[1] = d
            /\ d > Fix(180) => dhp[1] = d - Fix(360)
            /\ d < -Fix(180) => dhp[1] = d + Fix(360)
            /\ dhp[1] >= -Fix(180) /\ dhp[1] <= Fix(180)
            /\ (dhp[1] - d) % Fix(360) = 0

\* the second call has returned after taking the + 360 branch, the first
\* call having taken the - 360 branch on the exchanged arguments
C11_Witness ==
    /\ lab_pc = <<2, "ret">>
    /\ color_2.hp - color_1.hp < -Fix(180)
    /\ dhp = Some(color_2.hp - color_1.hp + Fix(360))
    /\ ee.dhp = -dhp[1]

\* the mean-hue step of the running call has been executed
MeanHueDone ==
    \/ lab_pc[2] \in {"de", "ret"}
    \/ lab_pc[2] = "raised" /\ dhp # None

\* C12: for hues in [0, 360) the mean-hue step assigns a number in
\* [0, 360): its fall-through branch, which leaves hhp None, is never
\* taken, and no later line computes with an undefined mean hue.
C12_MeanHueAssigned ==
    MeanHueDone =>
        /\ hhp # None
        /\ hhp[1] >= 0 /\ hhp[1] < Fix(360)
        /\ lab_pc[2] # "raised"

----------------------------------------------------------------------------
(* The average colour of an image *)

AvgColors == {Black, Dark, Red, White, Grey, Teal}

AvgImageFiles == SeqsUpTo(AvgColors, 1, MaxPixels)

InitAvg ==
    /\ palette = <<>>
    /\ image = <<>>
    /\ pal_rgb = <<>>
    /\ new_img = <<>>
    /\ idx = 0
    /\ new_color = Black
    /\ runs = 0
    /\ counted = <<>>
    /\ color_count = <<>>
    /\ rings_by_palette = <<>>
    /\ cost = 0
    /\ breakdown = <<>>
    /\ pc = "idle"
    /\ err = ""
    /\ LabIdle
    /\ avg_fn \in {"get_average_color", "get_average_color_ring_lord"}
    /\ avg_image \in AvgImageFiles
    /\ ignore_function \in IgnoreFunctions
    /\ avg_i = 0
    /\ total_r = 0
    /\ total_g = 0
    /\ total_b = 0
    /\ avg_count = 0
    /\ average = None
    /\ avg_pc = "loop"

\* one iteration of the pixel loop, the same in both functions
AveragePixel ==
    /\ avg_pc = "loop"
    /\ avg_i < Len(avg_image)
    /\ avg_i' = avg_i + 1
    /\ LET pixel == avg_image[avg_i + 1]
       IN  IF Ignored(ignore_function, pixel)
           THEN UNCHANGED <<total_r, total_g, total_b, avg_count>>
           ELSE /\ total_r' = total_r + pixel[1]
                /\ total_g' = total_g + pixel[2]
                /\ total_b' = total_b + pixel[3]
                /\ avg_count' = avg_count + 1
    /\ UNCHANGED <<avg_fn, avg_image, ignore_function, average, avg_pc>>
    /\ UNCHANGED pipeVars
    /\ UNCHANGED labVars

\* test.py lines 298-306
GetAverageColorReturn ==
    /\ avg_pc = "loop"
    /\ avg_fn = "get_average_color"
    /\ avg_i = Len(avg_image)
    /\ average' = IF avg_count = 0
                  THEN None
                  ELSE FormatAverage(total_r \div avg_count,
                                     total_g \div avg_count,
                                     total_b \div avg_count)
    /\ avg_pc' = "returned"
    /\ UNCHANGED <<avg_fn, avg_image, ignore_function, avg_i, total_r,
                   total_g, total_b, avg_count>>
    /\ UNCHANGED pipeVars
    /\ UNCHANGED labVars

\* ring_lord_palette_creation.py lines 57-65
GetAverageColorRingLordReturn ==
    /\ avg_pc = "loop"
    /\ avg_fn = "get_average_color_ring_lord"
    /\ avg_i = Len(avg_image)
    /\ average' = IF avg_count = 0
                  THEN None
                  ELSE FormatAverageRingLord(total_r \div avg_count,
                                             total_g \div avg_count,
                                             total_b \div avg_count)
    /\ avg_pc' = "returned"
    /\ UNCHANGED <<avg_fn, avg_image, ignore_function, avg_i, total_r,
                   total_g, total_b, avg_count>>
    /\ UNCHANGED pipeVars
    /\ UNCHANGED labVars

NextAvg ==
    \/ AveragePixel
    \/ GetAverageColorReturn
    \/ GetAverageColorRingLordReturn

SpecAvg == InitAvg /\ [][NextAvg]_vars

\* positions of the pixels the ignore predicate lets through
Kept == {i \in DOMAIN avg_image : ~Ignored(ignore_function, avg_image[i])}

RECURSIVE SumChannel(_, _, _)
SumChannel(pixels, S, k) ==
    IF S = {}
    THEN 0
    ELSE LET i == CHOOSE j \in S : TRUE
         IN  pixels[i][k] + SumChannel(pixels, S \ {i}, k)

UpperHexDigits == {HexChars[i] : i \in 1..16}

\* C13: both functions return None exactly when every pixel is ignored;
\* otherwise they return six upper-case hexadecimal digits RRGGBB whose
\* channels are the floors of the channel means over the pixels kept, also
\* for means below 16.
C13_AverageIsSixHexDigits ==
    avg_pc = "returned" =>
        /\ (average = None) <=> (Kept = {})
        /\ Kept # {} =>
               /\ Len(average) = 6
               /\ \A i \in 1..6 : average[i] \in UpperHexDigits
               /\ ParseColor(average) =
                      <<SumChannel(avg_image, Kept, 1) \div Cardinality(Kept),
                        SumChannel(avg_image, Kept, 2) \div Cardinality(Kept),
                        SumChannel(avg_image, Kept, 3) \div Cardinality(Kept)>>

====
